---- MODULE Spec2Model ----
(***************************************************************************)
(* Model of the ticket reservation / settlement / expiration engine of     *)
(* ticket-backend: OrdersService (src/src/orders/orders.service.ts) and    *)
(* OrdersSchedulerService.handleExpiredOrders.                             *)
(*                                                                         *)
(* A $transaction commits the whole of its writes or nothing.  A call     *)
(* that throws rolls back and leaves the store as it was; what it throws   *)
(* is given by the ...Outcome operators.  create is split at its awaits    *)
(* into the event lookup with the availability check, the limit query,     *)
(* the counter update and the commit, so other requests commit in          *)
(* between.  A settlement reads nothing before                             *)
(* it writes and its writes become visible together: it is one step here   *)
(* and is split where its rollback is studied.  The scheduler's handler    *)
(* is split at its awaits: the query is one step and each                  *)
(* expired(order.id) call is one step.  Time is counted in minutes.        *)
(***************************************************************************)
EXTENDS Integers, Sequences, FiniteSets, TLC

VARIABLES
    events,    \* event id -> Event row (inventory counters, prices, limit)
    orders,    \* sequence of Order rows with their Ticket rows; id = index
    now,       \* wall clock, minutes
    sweep,     \* sweeper run -> set of order ids selected and not yet handled
    settled,   \* order id -> number of ledger deltas applied by settlements
    sessions   \* request in progress -> where it is and what it has read

vars == <<events, orders, now, sweep, settled, sessions>>

----------------------------------------------------------------------------
(* Bounds of the model *)

MaxSettle == 2      \* ledger-moving settlements callers commit in one run,
                    \* and settlements of one order by the cron job
MaxQty    == 2      \* largest quantity of one line item
MaxTime   == 10     \* the clock never passes this minute
MaxEvents == 5      \* event rows made by EventsService.create
MaxClock  == 20     \* where the cron job is followed, the clock goes on
                    \* to this minute, the one of the zone's change

(* Program constants *)

HoldMinutes == 10   \* expiresAt.setMinutes(expiresAt.getMinutes() + 10)
Take == 4           \* upcoming: take: 4

(* The time zone of the process: at the instant FallBackAt its clocks go    *)
(* back by DstShift minutes (the end of daylight saving time).  An instant  *)
(* is counted in minutes from the start of the run; a local time is        *)
(* counted on the wall clock as it ran before the change.                  *)
FallBackAt == 20
DstShift   == 60

EventIds  == {"e1", "e2"}
NoEvent   == "e0"                 \* an id no event row has
Users     == {"u1", "u2"}
TicketTypes == {"VIP", "REGULAR"}
OrderIds  == {1, 2}               \* the order table holds two rows
Sweepers  == {1, 2}             \* runs of the cron handler in progress at a time
Sessions  == {1, 2}               \* create transactions open at a time
Idle      == [pc |-> "idle"]

\* Line items of a request: one (type, quantity) pair, a VIP pair followed
\* by a REGULAR pair, or two REGULAR pairs (the same type listed twice).
Items == [type : TicketTypes, quantity : 1..MaxQty]
ItemLists ==
    {<<i>> : i \in Items}
    \cup {<<i, j>> : i \in {x \in Items : x.type = "VIP"},
                     j \in {x \in Items : x.type = "REGULAR"}}
    \cup {<<i, j>> : i \in {x \in Items : x.type = "REGULAR"},
                     j \in {x \in Items : x.type = "REGULAR"}}
DTOs == [userId : Users, eventId : EventIds \cup {NoEvent}, tickets : ItemLists]

\* The requests of S that one user makes.
OneUser(S) == {d \in S : d.userId = "u1"}

\* An event row as EventsService.create stores it: capacity and available
\* are two fields of the request, written as given; nothing is reserved or
\* sold yet.
NewEvent(vipCap, vipAvail, regCap, regAvail, vipPrice, regPrice, maxPer) ==
    [vipCapacity |-> vipCap, vipAvailable |-> vipAvail,
     vipReserved |-> 0, vipSold |-> 0,
     regularCapacity |-> regCap, regularAvailable |-> regAvail,
     regularReserved |-> 0, regularSold |-> 0,
     vipPrice |-> vipPrice, regularPrice |-> regPrice,
     maxTicketsPerUser |-> maxPer]

\* The event rows the store starts with.  e1 was created with available =
\* capacity in both classes; e2 was created with one of its two VIP tickets
\* available and has no REGULAR tickets.
InitEvents ==
    [e \in EventIds |->
        IF e = "e1" THEN NewEvent(1, 1, 2, 2, 5, 2, 2)
                    ELSE NewEvent(2, 1, 0, 0, 7, 3, 0)]

----------------------------------------------------------------------------
(* Pure helpers of OrdersService *)

RECURSIVE SumSeq(_)
SumSeq(s) == IF s = << >> THEN 0 ELSE Head(s) + SumSeq(Tail(s))

\* getCount without its filter: every ticket counts for every type.
getCountAll(type, tickets) == Len(tickets)

\* getCount(type, tickets): tickets.filter(t => t.type === type).length
getCount(type, tickets) ==
    Len(SelectSeq(tickets, LAMBDA t : t.type = type))

\* The availability check of create: one comparison per line item.
NotEnough(event, tickets) ==
    \E i \in 1..Len(tickets) :
        \/ tickets[i].type = "VIP" /\ event.vipAvailable < tickets[i].quantity
        \/ tickets[i].type = "REGULAR"
             /\ event.regularAvailable < tickets[i].quantity

\* vipCount / regularCount accumulated by the reduce of create.
RECURSIVE CountOf(_, _)
CountOf(type, tickets) ==
    IF tickets = << >> THEN 0
    ELSE (IF Head(tickets).type = type THEN Head(tickets).quantity ELSE 0)
         + CountOf(type, Tail(tickets))

\* total with every line item charged the regular price.
RECURSIVE TotalRegularPrice(_, _)
TotalRegularPrice(event, tickets) ==
    IF tickets = << >> THEN 0
    ELSE Head(tickets).quantity * event.regularPrice
         + TotalRegularPrice(event, Tail(tickets))

\* total = tickets.reduce(acc + quantity * class price, 0)
RECURSIVE Total(_, _)
Total(event, tickets) ==
    IF tickets = << >> THEN 0
    ELSE (IF Head(tickets).type = "VIP"
            THEN Head(tickets).quantity * event.vipPrice
            ELSE Head(tickets).quantity * event.regularPrice)
         + Total(event, Tail(tickets))

\* The same sum over the user's COMPLETED and PENDING orders of the event.
UserTotalTicketsHeld(userId, eventId) ==
    SumSeq([i \in 1..Len(orders) |->
              IF /\ orders[i].userId = userId
                 /\ orders[i].eventId = eventId
                 /\ orders[i].status \in {"COMPLETED", "PENDING"}
                THEN Len(orders[i].tickets) ELSE 0])

\* Sum of order.tickets.length over the user's COMPLETED orders of the event.
UserTotalTickets(userId, eventId) ==
    SumSeq([i \in 1..Len(orders) |->
              IF /\ orders[i].userId = userId
                 /\ orders[i].eventId = eventId
                 /\ orders[i].status = "COMPLETED"
                THEN Len(orders[i].tickets) ELSE 0])

\* The limit check without the test maxTicketsPerUser > 0.
LimitExceededAlways(event, dto) ==
    UserTotalTickets(dto.userId, dto.eventId)
      + CountOf("VIP", dto.tickets) + CountOf("REGULAR", dto.tickets)
    > event.maxTicketsPerUser

\* The limit check with >= in place of >: the last allowed ticket is refused.
LimitExceededOffByOne(event, dto) ==
    /\ event.maxTicketsPerUser > 0
    /\ UserTotalTickets(dto.userId, dto.eventId)
         + CountOf("VIP", dto.tickets) + CountOf("REGULAR", dto.tickets)
       >= event.maxTicketsPerUser

\* if (maxTicketsPerUser > 0) ... userTotalTickets + requestedTickets > max
LimitExceeded(event, dto) ==
    /\ event.maxTicketsPerUser > 0
    /\ UserTotalTickets(dto.userId, dto.eventId)
         + CountOf("VIP", dto.tickets) + CountOf("REGULAR", dto.tickets)
       > event.maxTicketsPerUser

\* One ticket row per line item, whatever its quantity.
TicketRowsPerItem(event, tickets) ==
    [i \in 1..Len(tickets) |->
        [type   |-> tickets[i].type,
         price  |-> IF tickets[i].type = "VIP"
                      THEN event.vipPrice ELSE event.regularPrice,
         status |-> "RESERVED"]]

\* tickets.flatMap(ticket => Array.from({length: quantity}).map(row))
RECURSIVE TicketRows(_, _)
TicketRows(event, tickets) ==
    IF tickets = << >> THEN << >>
    ELSE [k \in 1..Head(tickets).quantity |->
             [type   |-> Head(tickets).type,
              price  |-> IF Head(tickets).type = "VIP"
                           THEN event.vipPrice ELSE event.regularPrice,
              status |-> "RESERVED"]]
         \o TicketRows(event, Tail(tickets))

\* An update that reaches only the first ticket of the order.
SetTicketsFirst(tickets, status) ==
    [k \in 1..Len(tickets) |->
        IF k = 1 THEN [tickets[k] EXCEPT !.status = status] ELSE tickets[k]]

\* tickets: { updateMany: { where: {}, data: { status } } }
SetTickets(tickets, status) ==
    [k \in 1..Len(tickets) |-> [tickets[k] EXCEPT !.status = status]]

----------------------------------------------------------------------------
(* The store *)

Init ==
    /\ events = InitEvents
    /\ orders = << >>
    /\ now = 0
    /\ sweep = [k \in Sweepers |-> {}]
    /\ settled = [o \in OrderIds |-> 0]
    /\ sessions = [s \in Sessions |-> Idle]

\* Ledger-moving settlements committed so far.
SettledTotal == SumSeq([o \in 1..Cardinality(OrderIds) |-> settled[o]])

\* A call that throws: its transaction rolls back, nothing is written.
Throw == UNCHANGED vars

\* tx.event.update of create: reserved += count, available -= count.
ReserveCounters(event, vipCount, regularCount) ==
    [event EXCEPT !.regularReserved  = @ + regularCount,
                  !.regularAvailable = @ - regularCount,
                  !.vipReserved      = @ + vipCount,
                  !.vipAvailable     = @ - vipCount]

\* A sale taken from available: available -= count, sold += count.
SellCountersFromAvailable(event, vipCount, regularCount) ==
    [event EXCEPT !.regularAvailable = @ - regularCount,
                  !.regularSold      = @ + regularCount,
                  !.vipAvailable     = @ - vipCount,
                  !.vipSold          = @ + vipCount]

\* tx.event.update of approved: reserved -= count, sold += count.
SellCounters(event, vipCount, regularCount) ==
    [event EXCEPT !.regularReserved = @ - regularCount,
                  !.regularSold     = @ + regularCount,
                  !.vipReserved     = @ - vipCount,
                  !.vipSold         = @ + vipCount]

\* A release that forgets to give the tickets back to available.
ReleaseCountersLost(event, vipCount, regularCount) ==
    [event EXCEPT !.regularReserved = @ - regularCount,
                  !.vipReserved     = @ - vipCount]

\* tx.event.update of expired: reserved -= count, available += count.
ReleaseCounters(event, vipCount, regularCount) ==
    [event EXCEPT !.regularReserved  = @ - regularCount,
                  !.regularAvailable = @ + regularCount,
                  !.vipReserved      = @ - vipCount,
                  !.vipAvailable     = @ + vipCount]

\* tx.event.update of cancelled: reserved -= count, available += count.
CancelCounters(event, vipCount, regularCount) ==
    [event EXCEPT !.regularReserved  = @ - regularCount,
                  !.regularAvailable = @ + regularCount,
                  !.vipReserved      = @ - vipCount,
                  !.vipAvailable     = @ + vipCount]

\* The wall-clock time of the process's zone at an instant (what getMinutes
\* reads).
LocalTime(t) == IF t < FallBackAt THEN t ELSE t - DstShift

\* The instant of a wall-clock time (what setMinutes stores): a time the
\* wall clock shows twice is taken as its first occurrence, a later one is
\* after the change.
UTC(local) == IF local < FallBackAt THEN local ELSE local + DstShift

\* const expiresAt = new Date(); expiresAt.setMinutes(expiresAt.getMinutes()
\* + 10): ten minutes are added on the wall clock of the process's zone.
ExpiresAt(t) == UTC(LocalTime(t) + HoldMinutes)

\* The Order row inserted by create, with its Ticket rows.
NewOrder(event, dto) ==
    [userId    |-> dto.userId,
     eventId   |-> dto.eventId,
     total     |-> Total(event, dto.tickets),
     status    |-> "PENDING",
     expiresAt |-> ExpiresAt(now),
     tickets   |-> TicketRows(event, dto.tickets)]

\* create without the test of the lookup's result: a missing event passes.
createOutcomeNoLookup(dto) ==
    IF dto.eventId \notin DOMAIN events THEN "ok"
    ELSE IF NotEnough(events[dto.eventId], dto.tickets) THEN "NotEnough"
    ELSE IF LimitExceeded(events[dto.eventId], dto) THEN "LimitExceeded"
    ELSE "ok"

\* What create(dto) throws, or "ok": NotFoundException for a missing event
\* and for a line item above the available counter, BadRequestException
\* for the per-user limit; the outcome of a call whose reads all see the
\* current rows.
createOutcome(dto) ==
    IF dto.eventId \notin DOMAIN events THEN "EventNotFound"
    ELSE IF NotEnough(events[dto.eventId], dto.tickets) THEN "NotEnough"
    ELSE IF LimitExceeded(events[dto.eventId], dto) THEN "LimitExceeded"
    ELSE "ok"

\* OrdersService.create(createOrderDto) runs its store calls one after the
\* other inside one $transaction, at the store's default isolation (read
\* committed): findUnique and findMany read committed rows and take no
\* lock, the checks run on that copy, event.update later applies
\* increment/decrement to the row as it is then, and order.create inserts
\* the order.  Other requests commit between these steps.

\* create calls that found their event and have not ended.
InFlight ==
    Cardinality({s \in Sessions :
                   sessions[s].pc \in {"found", "checked", "updated"}})

\* What create uses of the event row after the availability check: the two
\* prices and the limit.
EventRead(event) ==
    [vipPrice |-> event.vipPrice, regularPrice |-> event.regularPrice,
     maxTicketsPerUser |-> event.maxTicketsPerUser]

\* create, lines 16-55: tx.event.findUnique loads the event and the
\* availability check runs on the copy.  When the copy's maxTicketsPerUser
\* is not positive the limit query is skipped and the checks are passed.
\* A session whose last call failed takes the next request like an idle
\* one; a new call takes the first session that is free.
CreateRead(s, dto) ==
    /\ sessions[s].pc \in {"idle", "failed"}
    /\ \A t \in Sessions : t < s => sessions[t].pc \notin {"idle", "failed"}
    /\ Len(orders) + InFlight < Cardinality(OrderIds)
    /\ IF createOutcome(dto) \in {"EventNotFound", "NotEnough"} THEN Throw
       ELSE /\ sessions' = [sessions EXCEPT ![s] =
                              [pc |-> IF events[dto.eventId].maxTicketsPerUser > 0
                                        THEN "found" ELSE "checked",
                               dto |-> dto,
                               event |-> EventRead(events[dto.eventId])]]
            /\ UNCHANGED <<events, orders, now, sweep, settled>>

\* create, lines 56-81: tx.order.findMany reads the user's COMPLETED orders
\* of the event as they are now and the limit check compares their tickets
\* plus the requested ones with the maxTicketsPerUser of the copy; when it
\* throws the call ends with nothing written.
CreateLimit(s) ==
    /\ sessions[s].pc = "found"
    /\ sessions' = [sessions EXCEPT ![s] =
                      IF LimitExceeded(sessions[s].event, sessions[s].dto)
                        THEN Idle ELSE [@ EXCEPT !.pc = "checked"]]
    /\ UNCHANGED <<events, orders, now, sweep, settled>>

\* create, lines 83-101: tx.event.update runs inside the transaction.  It
\* locks the event row until the transaction ends, and its write is not
\* visible to others before the commit.
CreateUpdate(s) ==
    /\ sessions[s].pc = "checked"
    /\ \A t \in Sessions \ {s} :
         sessions[t].pc = "updated"
            => sessions[t].dto.eventId # sessions[s].dto.eventId
    /\ sessions' = [sessions EXCEPT ![s].pc = "updated"]
    /\ UNCHANGED <<events, orders, now, sweep, settled>>

\* create, lines 103-129: insert the order and commit; the counter update
\* and the order with its tickets become visible together.
CreateCommit(s) ==
    /\ sessions[s].pc = "updated"
    /\ Len(orders) < Cardinality(OrderIds)
    /\ LET dto == sessions[s].dto
           event == sessions[s].event
       IN /\ events' = [events EXCEPT ![dto.eventId] =
                          ReserveCounters(@, CountOf("VIP", dto.tickets),
                                          CountOf("REGULAR", dto.tickets))]
          /\ orders' = Append(orders, NewOrder(event, dto))
    /\ sessions' = [sessions EXCEPT ![s] = Idle]
    /\ UNCHANGED <<now, sweep, settled>>

\* create, lines 83-129, where no rollback is studied: the counter update,
\* the insert and the commit as the one step in which they become visible.
\* When the event row is gone event.update throws and the call ends with
\* nothing written.
CreateWrite(s) ==
    /\ sessions[s].pc = "checked"
    /\ Len(orders) < Cardinality(OrderIds)
    /\ LET dto == sessions[s].dto
           event == sessions[s].event
       IN IF dto.eventId \notin DOMAIN events
            THEN UNCHANGED <<events, orders>>
            ELSE /\ events' = [events EXCEPT ![dto.eventId] =
                                 ReserveCounters(@, CountOf("VIP", dto.tickets),
                                                 CountOf("REGULAR", dto.tickets))]
                 /\ orders' = Append(orders, NewOrder(event, dto))
    /\ sessions' = [sessions EXCEPT ![s] = Idle]
    /\ UNCHANGED <<now, sweep, settled>>

\* A failure that is not rolled back: the counter update stays.
CreateAbortPartial(s) ==
    /\ sessions[s].pc = "updated"
    /\ LET dto == sessions[s].dto
       IN events' = [events EXCEPT ![dto.eventId] =
                       ReserveCounters(@, CountOf("VIP", dto.tickets),
                                       CountOf("REGULAR", dto.tickets))]
    /\ sessions' = [sessions EXCEPT ![s] =
                      [pc |-> "failed", at |-> "updated"]]
    /\ UNCHANGED <<orders, now, sweep, settled>>

\* tx.event.update or tx.order.create throws (the store fails): $transaction
\* rolls back whatever the callback wrote and create rejects.
\* The session keeps where the call failed.
CreateAbort(s) ==
    /\ sessions[s].pc \in {"checked", "updated"}
    /\ sessions' = [sessions EXCEPT ![s] =
                      [pc |-> "failed", at |-> sessions[s].pc]]
    /\ UNCHANGED <<events, orders, now, sweep, settled>>

\* tx.order.update({ where: {id}, data: {status, tickets: updateMany} }):
\* the row is written whatever its current status is.
WithStatus(order, status, ticketStatus) ==
    [order EXCEPT !.status = status,
                  !.tickets = SetTickets(order.tickets, ticketStatus)]

\* A settlement that does not fail on an id without a row.
settleOutcomeAnyId(orderId) == "ok"

\* The order table has a row with this id: the id was given to an order
\* and the order was not deleted.
HasRow(id) == id \in 1..Len(orders) /\ orders[id].status # "DELETED"

\* What a settlement call throws, or "ok": order.update on an id that has
\* no row fails (record to update not found).
settleOutcome(orderId) ==
    IF ~HasRow(orderId) THEN "RecordNotFound" ELSE "ok"

\* The order row and the event rows that approved(orderId) commits.
approvedOrder(orderId) ==
    WithStatus(orders[orderId], "COMPLETED", "SOLD")

\* An approval that moves the order's counts on every event row.
approvedEventsEverywhere(orderId) ==
    LET order == approvedOrder(orderId) IN
    [e \in DOMAIN events |->
        SellCounters(events[e], getCount("VIP", order.tickets),
                     getCount("REGULAR", order.tickets))]

approvedEvents(orderId) ==
    LET order == approvedOrder(orderId) IN
    [events EXCEPT ![order.eventId] =
        SellCounters(@, getCount("VIP", order.tickets),
                     getCount("REGULAR", order.tickets))]

\* OrdersService.approved(orderId)
approved(orderId) ==
    IF settleOutcome(orderId) # "ok" THEN Throw
    ELSE
        /\ SettledTotal < MaxSettle
        /\ orders' = [orders EXCEPT ![orderId] = approvedOrder(orderId)]
        /\ events' = approvedEvents(orderId)
        /\ settled' = [settled EXCEPT ![orderId] = @ + 1]
        /\ UNCHANGED <<now, sweep, sessions>>

\* A rejection that starts a new hold period.
rejectedOrderExtended(orderId) ==
    [WithStatus(orders[orderId], "PENDING", "RESERVED")
        EXCEPT !.expiresAt = now + HoldMinutes]

\* The order row that rejected(orderId) writes.
rejectedOrder(orderId) ==
    WithStatus(orders[orderId], "PENDING", "RESERVED")

\* OrdersService.rejected(orderId)
rejected(orderId) ==
    IF settleOutcome(orderId) # "ok" THEN Throw
    ELSE
        /\ orders' = [orders EXCEPT ![orderId] = rejectedOrder(orderId)]
        /\ UNCHANGED <<events, now, sweep, settled, sessions>>

\* The order row and the event rows that cancelled(orderId) commits.
cancelledOrder(orderId) ==
    WithStatus(orders[orderId], "CANCELLED", "AVAILABLE")

cancelledEvents(orderId) ==
    LET order == cancelledOrder(orderId) IN
    [events EXCEPT ![order.eventId] =
        CancelCounters(@, getCount("VIP", order.tickets),
                       getCount("REGULAR", order.tickets))]

\* The order row and the event rows that expired(orderId) commits.
expiredOrder(orderId) ==
    WithStatus(orders[orderId], "EXPIRED", "AVAILABLE")

expiredEvents(orderId) ==
    LET order == expiredOrder(orderId) IN
    [events EXCEPT ![order.eventId] =
        ReleaseCounters(@, getCount("VIP", order.tickets),
                        getCount("REGULAR", order.tickets))]

\* The writes of expired's transaction (status is "EXPIRED").
ReleaseWrites(orderId, status) ==
    /\ orders' = [orders EXCEPT ![orderId] =
                    [expiredOrder(orderId) EXCEPT !.status = status]]
    /\ events' = expiredEvents(orderId)
    /\ settled' = [settled EXCEPT ![orderId] = @ + 1]

\* expired's transaction when a caller runs it.
Release(orderId, status) ==
    /\ SettledTotal < MaxSettle
    /\ ReleaseWrites(orderId, status)

\* OrdersService.cancelled(orderId)
cancelled(orderId) ==
    IF settleOutcome(orderId) # "ok" THEN Throw
    ELSE
        /\ SettledTotal < MaxSettle
        /\ orders' = [orders EXCEPT ![orderId] = cancelledOrder(orderId)]
        /\ events' = cancelledEvents(orderId)
        /\ settled' = [settled EXCEPT ![orderId] = @ + 1]
        /\ UNCHANGED <<now, sweep, sessions>>

\* OrdersService.expired(orderId)
expired(orderId) ==
    IF settleOutcome(orderId) # "ok" THEN Throw
    ELSE
        /\ Release(orderId, "EXPIRED")
        /\ UNCHANGED <<now, sweep, sessions>>

\* OrdersService.getExpiredOrders(): PENDING orders with expiresAt <= now.
getExpiredOrders ==
    {o \in 1..Len(orders) :
        orders[o].status = "PENDING" /\ orders[o].expiresAt <= now}

\* handleExpiredOrders, up to the loop: the query of one cron run.
SweepQuery(k) ==
    /\ sweep[k] = {}
    /\ getExpiredOrders # {}
    /\ sweep' = [sweep EXCEPT ![k] = getExpiredOrders]
    /\ UNCHANGED <<events, orders, now, settled, sessions>>

\* One iteration of the loop of handleExpiredOrders: expired(order.id)
\* commits for the selected order o, whose row is still there.  Runs that
\* overlap can each hold o in their selection, and each of them commits.
SweepExpireOrder(k, o) ==
    /\ o \in sweep[k]
    /\ settleOutcome(o) = "ok"
    /\ settled[o] < MaxSettle
    /\ ReleaseWrites(o, "EXPIRED")
    /\ sweep' = [sweep EXCEPT ![k] = @ \ {o}]
    /\ UNCHANGED <<now, sessions>>

SweepExpire(k) == \E o \in OrderIds : SweepExpireOrder(k, o)

\* A failure that leaves the loop: the rest of the selection is dropped.
SweepExpireFailsLoop(k, o) ==
    /\ o \in sweep[k]
    /\ sweep' = [sweep EXCEPT ![k] = {}]
    /\ UNCHANGED <<events, orders, now, settled, sessions>>

\* One iteration whose expired(order.id) throws (the store fails, or the
\* order was deleted after the query): the transaction rolls back, the
\* inner catch logs the error, the loop goes on with the next selected
\* order.
SweepExpireFailsOrder(k, o) ==
    /\ o \in sweep[k]
    /\ sweep' = [sweep EXCEPT ![k] = @ \ {o}]
    /\ UNCHANGED <<events, orders, now, settled, sessions>>

SweepExpireFails(k) == \E o \in OrderIds : SweepExpireFailsOrder(k, o)

\* Time passes: the clock is observed once per hold period, up to the
\* minute max.
TickUpTo(max) ==
    /\ now + HoldMinutes <= max
    /\ now' = now + HoldMinutes
    /\ UNCHANGED <<events, orders, sweep, settled, sessions>>

Tick == TickUpTo(MaxTime)

\* Every call of OrdersService, the cron job and the clock.  The requests
\* are those of one user, with every list of line items; what a second
\* user changes, the count of the purchase limit, is followed in SpecCall
\* and SpecPlain.
Next ==
    \/ \E s \in Sessions : \E dto \in OneUser(DTOs) : CreateRead(s, dto)
    \/ \E s \in Sessions : CreateLimit(s)
    \/ \E s \in Sessions : CreateWrite(s)
    \/ \E o \in OrderIds : approved(o)
    \/ \E o \in OrderIds : rejected(o)
    \/ \E o \in OrderIds : cancelled(o)
    \/ \E o \in OrderIds : expired(o)
    \/ \E k \in Sweepers : SweepQuery(k)
    \/ \E k \in Sweepers : SweepExpire(k)
    \/ \E k \in Sweepers : SweepExpireFails(k)
    \/ Tick

Spec == Init /\ [][Next]_vars

----------------------------------------------------------------------------
(* The calls of OrdersService alone: requests and settlements by callers,  *)
(* at one reading of the clock, without the cron job.                      *)

CallNext ==
    \/ \E s \in Sessions : \E dto \in DTOs : CreateRead(s, dto)
    \/ \E s \in Sessions : CreateLimit(s)
    \/ \E s \in Sessions : CreateWrite(s)
    \/ \E o \in OrderIds : approved(o)
    \/ \E o \in OrderIds : rejected(o)
    \/ \E o \in OrderIds : cancelled(o)
    \/ \E o \in OrderIds : expired(o)

SpecCall == Init /\ [][CallNext]_vars

\* Requests with at most one line item per ticket type.
PlainDTOs ==
    {d \in DTOs : \A i, j \in 1..Len(d.tickets) :
                     d.tickets[i].type = d.tickets[j].type => i = j}

\* Requests of one user with at most one line item per ticket type.
OneUserDTOs == OneUser(PlainDTOs)

\* The same system when every request names each ticket type at most once.
NextPlain ==
    \/ \E s \in Sessions : \E dto \in PlainDTOs : CreateRead(s, dto)
    \/ \E s \in Sessions : CreateLimit(s)
    \/ \E s \in Sessions : CreateWrite(s)
    \/ \E o \in OrderIds : approved(o)
    \/ \E o \in OrderIds : rejected(o)
    \/ \E o \in OrderIds : cancelled(o)
    \/ \E o \in OrderIds : expired(o)
    \/ \E k \in Sweepers : SweepQuery(k)
    \/ \E k \in Sweepers : SweepExpire(k)
    \/ \E k \in Sweepers : SweepExpireFails(k)
    \/ Tick

SpecPlain == Init /\ [][NextPlain]_vars

----------------------------------------------------------------------------
(* Holds that no caller settles: requests are made, time passes, and the   *)
(* cron job runs.  @Cron(EVERY_MINUTE) starts handleExpiredOrders again    *)
(* and again, so a query that stays possible is made (WF on SweepQuery),   *)
(* and the loop reaches every selected order; expired(order.id) may throw, *)
(* but an order tried again and again is expired once (SF on               *)
(* SweepExpireOrder: the store does not fail for ever).                    *)

NextLive ==
    \/ \E s \in Sessions : \E dto \in PlainDTOs : CreateRead(s, dto)
    \/ \E s \in Sessions : CreateLimit(s)
    \/ \E s \in Sessions : CreateWrite(s)
    \/ \E k \in Sweepers : SweepQuery(k)
    \/ \E k \in Sweepers : SweepExpire(k)
    \/ \E k \in Sweepers : SweepExpireFails(k)
    \/ TickUpTo(MaxClock)

SpecLive ==
    /\ Init /\ [][NextLive]_vars
    /\ \A k \in Sweepers :
         /\ WF_vars(SweepQuery(k))
         /\ \A o \in OrderIds : SF_vars(SweepExpireOrder(k, o))

----------------------------------------------------------------------------
(* The cron job next to a caller's approve and cancel.  Nothing is assumed *)
(* of the store: a run that has selected orders goes through its loop,     *)
(* each iteration committing or throwing (WF on the iteration), and the    *)
(* job is started again every minute (WF on SweepQuery).                   *)

SweepStep(k) == SweepExpire(k) \/ SweepExpireFails(k)

NextSweep ==
    \/ \E s \in Sessions : \E dto \in OneUserDTOs : CreateRead(s, dto)
    \/ \E s \in Sessions : CreateLimit(s)
    \/ \E s \in Sessions : CreateWrite(s)
    \/ \E o \in OrderIds : approved(o)
    \/ \E o \in OrderIds : cancelled(o)
    \/ \E k \in Sweepers : SweepQuery(k)
    \/ \E k \in Sweepers : SweepStep(k)
    \/ Tick

SpecSweep ==
    /\ Init /\ [][NextSweep]_vars
    /\ \A k \in Sweepers : WF_vars(SweepQuery(k)) /\ WF_vars(SweepStep(k))

----------------------------------------------------------------------------
(* create alone, with the failures of the store: every way two requests   *)
(* interleave, and every point at which a transaction is rolled back.     *)

ConcNext ==
    \/ \E s \in Sessions : \E dto \in PlainDTOs : CreateRead(s, dto)
    \/ \E s \in Sessions : CreateLimit(s)
    \/ \E s \in Sessions : CreateUpdate(s)
    \/ \E s \in Sessions : CreateCommit(s)
    \/ \E s \in Sessions : CreateAbort(s)

SpecConc == Init /\ [][ConcNext]_vars

----------------------------------------------------------------------------
(* The settlement transactions step by step.  approved, cancelled and      *)
(* expired run order.update and then event.update inside one $transaction: *)
(* order.update locks the order row until the transaction ends, neither    *)
(* write is visible before the commit, and a throw rolls both back.        *)

SettleOps == {"approved", "cancelled", "expired"}

settledOrder(op, orderId) ==
    CASE op = "approved"  -> approvedOrder(orderId)
      [] op = "cancelled" -> cancelledOrder(orderId)
      [] op = "expired"   -> expiredOrder(orderId)

settledEvents(op, orderId) ==
    CASE op = "approved"  -> approvedEvents(orderId)
      [] op = "cancelled" -> cancelledEvents(orderId)
      [] op = "expired"   -> expiredEvents(orderId)

\* tx.order.update runs inside the transaction (status and ticket status).
SettleWrite(s, op, orderId) ==
    /\ sessions[s].pc \in {"idle", "failed"}
    /\ IF settleOutcome(orderId) # "ok" THEN Throw
       ELSE /\ \A t \in Sessions \ {s} :
                 sessions[t].pc = "written" => sessions[t].orderId # orderId
            /\ sessions' = [sessions EXCEPT ![s] =
                              [pc |-> "written", op |-> op,
                               orderId |-> orderId]]
            /\ UNCHANGED <<events, orders, now, sweep, settled>>

\* tx.event.update runs and the transaction commits: the order row, its
\* tickets and the counters become visible together.
SettleCommit(s) ==
    /\ sessions[s].pc = "written"
    /\ SettledTotal < MaxSettle
    /\ LET op == sessions[s].op
           orderId == sessions[s].orderId
       IN /\ orders' = [orders EXCEPT ![orderId] = settledOrder(op, orderId)]
          /\ events' = settledEvents(op, orderId)
          /\ settled' = [settled EXCEPT ![orderId] = @ + 1]
    /\ sessions' = [sessions EXCEPT ![s] = Idle]
    /\ UNCHANGED <<now, sweep>>

\* A failure that is not rolled back: the status written by order.update
\* stays, the counters are not moved.
SettleAbortPartial(s) ==
    /\ sessions[s].pc = "written"
    /\ LET op == sessions[s].op
           orderId == sessions[s].orderId
       IN orders' = [orders EXCEPT ![orderId] = settledOrder(op, orderId)]
    /\ sessions' = [sessions EXCEPT ![s].pc = "failed"]
    /\ UNCHANGED <<events, now, sweep, settled>>

\* tx.event.update throws (the store fails): $transaction rolls back the
\* order.update and the call rejects.  The session keeps what it tried.
SettleAbort(s) ==
    /\ sessions[s].pc = "written"
    /\ sessions' = [sessions EXCEPT ![s].pc = "failed"]
    /\ UNCHANGED <<events, orders, now, sweep, settled>>

TxNext ==
    \/ \E s \in Sessions : \E dto \in OneUserDTOs : CreateRead(s, dto)
    \/ \E s \in Sessions : CreateLimit(s)
    \/ \E s \in Sessions : CreateWrite(s)
    \/ \E s \in Sessions : \E op \in SettleOps : \E o \in OrderIds :
            SettleWrite(s, op, o)
    \/ \E s \in Sessions : SettleCommit(s)
    \/ \E s \in Sessions : SettleAbort(s)

SpecTx == Init /\ [][TxNext]_vars

----------------------------------------------------------------------------
(* The notification hook.  The payment handler settles the order and then  *)
(* calls MailService with the order id; the settlement has committed in    *)
(* its own $transaction when the mail method starts.                       *)

\* The handler of an approved payment: approved(orderId) commits, then the
\* mail method is due.  A throwing approved ends the handler.
PaymentApproved(s, orderId) ==
    /\ sessions[s].pc \in {"idle", "failed"}
    /\ IF settleOutcome(orderId) # "ok" THEN Throw
       ELSE /\ SettledTotal < MaxSettle
            /\ orders' = [orders EXCEPT ![orderId] = approvedOrder(orderId)]
            /\ events' = approvedEvents(orderId)
            /\ settled' = [settled EXCEPT ![orderId] = @ + 1]
            /\ sessions' = [sessions EXCEPT ![s] =
                              [pc |-> "notify", op |-> "approved",
                               orderId |-> orderId]]
            /\ UNCHANGED <<now, sweep>>

\* The handler of a rejected payment: rejected(orderId), then the mail.
PaymentRejected(s, orderId) ==
    /\ sessions[s].pc \in {"idle", "failed"}
    /\ IF settleOutcome(orderId) # "ok" THEN Throw
       ELSE /\ orders' = [orders EXCEPT ![orderId] = rejectedOrder(orderId)]
            /\ sessions' = [sessions EXCEPT ![s] =
                              [pc |-> "notify", op |-> "rejected",
                               orderId |-> orderId]]
            /\ UNCHANGED <<events, now, sweep, settled>>

\* A mail method that undoes the settlement when the mail cannot be sent.
paymentAprovedEmailUndo(s) ==
    /\ sessions[s].pc = "notify" /\ sessions[s].op = "approved"
    /\ orders' = [orders EXCEPT ![sessions[s].orderId] =
                    rejectedOrder(sessions[s].orderId)]
    /\ sessions' = [sessions EXCEPT ![s].pc = "failed"]
    /\ UNCHANGED <<events, now, sweep, settled>>

\* MailService.paymentAprovedEmail(orderId): order.findUnique, the QR
\* codes, sendMail.  It ends with the mail sent, or it throws (order not
\* found, sendMail fails); it writes nothing.
paymentAprovedEmail(s) ==
    /\ sessions[s].pc = "notify" /\ sessions[s].op = "approved"
    /\ \E sent \in BOOLEAN :
         sessions' = [sessions EXCEPT ![s].pc =
                        IF sent /\ sessions[s].orderId \in 1..Len(orders)
                          THEN "sent" ELSE "failed"]
    /\ UNCHANGED <<events, orders, now, sweep, settled>>

\* MailService.paymentRejectedEmail(orderId): order.findUnique, sendMail.
paymentRejectedEmail(s) ==
    /\ sessions[s].pc = "notify" /\ sessions[s].op = "rejected"
    /\ \E sent \in BOOLEAN :
         sessions' = [sessions EXCEPT ![s].pc =
                        IF sent /\ sessions[s].orderId \in 1..Len(orders)
                          THEN "sent" ELSE "failed"]
    /\ UNCHANGED <<events, orders, now, sweep, settled>>

\* The handler returns after the mail was sent.
HookDone(s) ==
    /\ sessions[s].pc = "sent"
    /\ sessions' = [sessions EXCEPT ![s] = Idle]
    /\ UNCHANGED <<events, orders, now, sweep, settled>>

HookNext ==
    \/ \E s \in Sessions : \E dto \in OneUserDTOs : CreateRead(s, dto)
    \/ \E s \in Sessions : CreateLimit(s)
    \/ \E s \in Sessions : CreateWrite(s)
    \/ \E s \in Sessions : \E o \in OrderIds : PaymentApproved(s, o)
    \/ \E s \in Sessions : \E o \in OrderIds : PaymentRejected(s, o)
    \/ \E s \in Sessions : paymentAprovedEmail(s)
    \/ \E s \in Sessions : paymentRejectedEmail(s)
    \/ \E s \in Sessions : HookDone(s)

SpecHook == Init /\ [][HookNext]_vars

----------------------------------------------------------------------------
(* EventsService.upcoming.  Here the event table is the sequence of the    *)
(* rows made by EventsService.create, of which upcoming reads the date.    *)

\* Dates an event is created with: before, at and after minute 10.
Dates == {5, 10, 15}

\* upcoming only reads: one caller shows all it can return.
Readers == {1}

InitCalendar ==
    /\ events = << >>
    /\ orders = << >>
    /\ now = 0
    /\ sweep = [k \in Sweepers |-> {}]
    /\ settled = [o \in OrderIds |-> 0]
    /\ sessions = [s \in Sessions |-> Idle]

\* EventsService.create(createEventDto): one more event row.
eventCreate(date) ==
    /\ Len(events) < MaxEvents
    /\ events' = Append(events, [date |-> date])
    /\ UNCHANGED <<orders, now, sweep, settled, sessions>>

\* The filter with gt in place of gte.
upcomingWhereAfter == {e \in 1..Len(events) : events[e].date > now}

\* where: { date: { gte: new Date() } }
upcomingWhere == {e \in 1..Len(events) : events[e].date >= now}

\* orderBy: { date: 'asc' }: the orders the store may return the rows of S
\* in (rows of equal date come in any order).
RECURSIVE orderByDate(_)
orderByDate(S) ==
    IF S = {} THEN {<< >>}
    ELSE UNION {{<<e>> \o q : q \in orderByDate(S \ {e})} :
                  e \in {x \in S :
                           \A y \in S : events[x].date <= events[y].date}}

\* take: 4
takeRows(q) == SubSeq(q, 1, IF Len(q) < Take THEN Len(q) ELSE Take)

\* EventsService.upcoming(): the caller gets the list.
upcoming(s) ==
    /\ sessions[s].pc = "idle"
    /\ \E q \in orderByDate(upcomingWhere) :
         sessions' = [sessions EXCEPT ![s] =
                        [pc |-> "listed", result |-> takeRows(q)]]
    /\ UNCHANGED <<events, orders, now, sweep, settled>>

\* The caller is done with the list.
upcomingReturn(s) ==
    /\ sessions[s].pc = "listed"
    /\ sessions' = [sessions EXCEPT ![s] = Idle]
    /\ UNCHANGED <<events, orders, now, sweep, settled>>

CalendarNext ==
    \/ \E d \in Dates : eventCreate(d)
    \/ \E s \in Readers : upcoming(s)
    \/ \E s \in Readers : upcomingReturn(s)
    \/ Tick

SpecCalendar == InitCalendar /\ [][CalendarNext]_vars

----------------------------------------------------------------------------
(* EventsService.update next to the orders.  The body of the request is    *)
(* written to the event row as it is; the requests here change prices.     *)

\* Prices an update sets.
NewPrices == {4}

\* Bodies of the update request: one price, or both.
UpdateEventDtos ==
    {[vipPrice |-> p] : p \in NewPrices}
    \cup {[regularPrice |-> p] : p \in NewPrices}
    \cup {[vipPrice |-> p, regularPrice |-> q] : p \in NewPrices,
                                                 q \in NewPrices}

\* An update that also rewrites the price of the event's tickets.
eventUpdateRepricing(id, updateEventDto) ==
    IF id \notin DOMAIN events THEN Throw
    ELSE
        /\ events' = [events EXCEPT ![id] =
                        [f \in DOMAIN @ |->
                            IF f \in DOMAIN updateEventDto
                              THEN updateEventDto[f] ELSE @[f]]]
        /\ orders' = [o \in 1..Len(orders) |->
                        IF orders[o].eventId # id THEN orders[o]
                        ELSE [orders[o] EXCEPT !.tickets =
                               [k \in 1..Len(orders[o].tickets) |->
                                  [type   |-> orders[o].tickets[k].type,
                                   status |-> orders[o].tickets[k].status,
                                   price  |->
                                     IF orders[o].tickets[k].type = "VIP"
                                       THEN events'[id].vipPrice
                                       ELSE events'[id].regularPrice]]]]
        /\ UNCHANGED <<now, sweep, settled, sessions>>

\* EventsService.update(id, updateEventDto): prisma.event.update with
\* data: updateEventDto; it throws when no event has the id.
eventUpdate(id, updateEventDto) ==
    IF id \notin DOMAIN events THEN Throw
    ELSE
        /\ events' = [events EXCEPT ![id] =
                        [f \in DOMAIN @ |->
                            IF f \in DOMAIN updateEventDto
                              THEN updateEventDto[f] ELSE @[f]]]
        /\ UNCHANGED <<orders, now, sweep, settled, sessions>>

PriceNext ==
    \/ \E s \in Sessions : \E dto \in OneUserDTOs : CreateRead(s, dto)
    \/ \E s \in Sessions : CreateLimit(s)
    \/ \E s \in Sessions : CreateWrite(s)
    \/ \E o \in OrderIds : approved(o)
    \/ \E o \in OrderIds : rejected(o)
    \/ \E o \in OrderIds : cancelled(o)
    \/ \E o \in OrderIds : expired(o)
    \/ \E id \in EventIds \cup {NoEvent} : \E d \in UpdateEventDtos :
            eventUpdate(id, d)

SpecPrice == Init /\ [][PriceNext]_vars

----------------------------------------------------------------------------
(* The generic operations next to the engine: OrdersService.update and    *)
(* OrdersService.remove, each a single write to the order table, and       *)
(* EventsService.remove.  A deleted order keeps its place in the sequence  *)
(* (ids are not used again) with the status "DELETED" and without          *)
(* tickets; a deleted event leaves the domain of events.                   *)

\* Bodies of the update request: the order's status set directly.
UpdateOrderDtos ==
    {[status |-> st] : st \in {"PENDING", "COMPLETED", "CANCELLED", "EXPIRED"}}

\* OrdersService.update(id, updateOrderDto): prisma.order.update with
\* data: updateOrderDto.  Only the named fields of the order row are
\* written: no ticket and no event row.  It throws when no order has the id.
update(id, updateOrderDto) ==
    IF ~HasRow(id) THEN Throw
    ELSE
        /\ orders' = [orders EXCEPT ![id] =
                        [f \in DOMAIN @ |->
                            IF f \in DOMAIN updateOrderDto
                              THEN updateOrderDto[f] ELSE @[f]]]
        /\ UNCHANGED <<events, now, sweep, settled, sessions>>

\* OrdersService.remove(id): prisma.order.delete.  The store either
\* refuses the delete (the order's tickets refer to it) or deletes the row,
\* its tickets going with it; no event row is written in either case.
remove(id) ==
    IF ~HasRow(id) THEN Throw
    ELSE
        \/ Throw
        \/ /\ orders' = [orders EXCEPT ![id] =
                           [@ EXCEPT !.status = "DELETED",
                                     !.tickets = << >>]]
           /\ UNCHANGED <<events, now, sweep, settled, sessions>>

\* Orders that refer to the event.
OrdersOfEvent(id) ==
    {o \in 1..Len(orders) : HasRow(o) /\ orders[o].eventId = id}

\* EventsService.remove(id): prisma.event.delete.  It throws when no event
\* has the id.  When orders refer to the event the store either refuses
\* the delete or deletes them with the event.
eventRemove(id) ==
    IF id \notin DOMAIN events THEN Throw
    ELSE
        /\ \/ OrdersOfEvent(id) # {} /\ Throw
           \/ /\ events' = [e \in DOMAIN events \ {id} |-> events[e]]
              /\ orders' = [o \in 1..Len(orders) |->
                              IF o \in OrdersOfEvent(id)
                                THEN [orders[o] EXCEPT !.status = "DELETED",
                                                       !.tickets = << >>]
                                ELSE orders[o]]
              /\ UNCHANGED <<now, sweep, settled, sessions>>

GenericNext ==
    \/ \E s \in Sessions : \E dto \in OneUserDTOs : CreateRead(s, dto)
    \/ \E s \in Sessions : CreateLimit(s)
    \/ \E s \in Sessions : CreateWrite(s)
    \/ \E o \in OrderIds : approved(o)
    \/ \E o \in OrderIds : rejected(o)
    \/ \E o \in OrderIds : cancelled(o)
    \/ \E o \in OrderIds : expired(o)
    \/ \E id \in OrderIds : \E d \in UpdateOrderDtos : update(id, d)
    \/ \E id \in OrderIds : remove(id)
    \/ \E id \in EventIds : eventRemove(id)

SpecGeneric == Init /\ [][GenericNext]_vars

----------------------------------------------------------------------------
(* Orders are deleted while the settlements and the scheduler run: an      *)
(* order that the query selected can be gone when the loop reaches it.     *)

RemoveNext ==
    \/ \E s \in Sessions : \E dto \in OneUserDTOs : CreateRead(s, dto)
    \/ \E s \in Sessions : CreateLimit(s)
    \/ \E s \in Sessions : CreateWrite(s)
    \/ \E o \in OrderIds : approved(o)
    \/ \E o \in OrderIds : rejected(o)
    \/ \E o \in OrderIds : cancelled(o)
    \/ \E o \in OrderIds : expired(o)
    \/ \E id \in OrderIds : remove(id)
    \/ \E k \in Sweepers : SweepQuery(k)
    \/ \E k \in Sweepers : SweepExpire(k)
    \/ \E k \in Sweepers : SweepExpireFails(k)
    \/ Tick

SpecRemove == Init /\ [][RemoveNext]_vars

----------------------------------------------------------------------------
(* Vocabulary of the properties *)

Terminal == {"COMPLETED", "CANCELLED", "EXPIRED"}

Exists(o) == o \in 1..Len(orders)

Available(e, c) ==
    IF c = "VIP" THEN events[e].vipAvailable ELSE events[e].regularAvailable
Reserved(e, c) ==
    IF c = "VIP" THEN events[e].vipReserved ELSE events[e].regularReserved
Sold(e, c) ==
    IF c = "VIP" THEN events[e].vipSold ELSE events[e].regularSold
Capacity(e, c) ==
    IF c = "VIP" THEN events[e].vipCapacity ELSE events[e].regularCapacity
Price(e, c) ==
    IF c = "VIP" THEN events[e].vipPrice ELSE events[e].regularPrice

\* Tickets of class c the row of event e offered when it was created.
Offered(e, c) ==
    IF c = "VIP" THEN InitEvents[e].vipAvailable
                 ELSE InitEvents[e].regularAvailable

\* The same counters in the next state.
AvailableNext(e, c) ==
    IF c = "VIP" THEN events'[e].vipAvailable ELSE events'[e].regularAvailable
ReservedNext(e, c) ==
    IF c = "VIP" THEN events'[e].vipReserved ELSE events'[e].regularReserved
SoldNext(e, c) ==
    IF c = "VIP" THEN events'[e].vipSold ELSE events'[e].regularSold

\* Tickets of one type among an order's ticket rows.
TicketsOf(order, c) == {k \in 1..Len(order.tickets) : order.tickets[k].type = c}

\* The step is the one in which the create call of session s loads its
\* event and passes the availability check.
Looks(s) ==
    sessions[s].pc \in {"idle", "failed"}
      /\ sessions'[s].pc \in {"found", "checked"}

\* The step is the one in which the create call of session s passes the
\* last of its checks.
Passes(s) ==
    sessions[s].pc \notin {"checked", "updated"} /\ sessions'[s].pc = "checked"

\* Quantity a request asks for in one class, over all its line items.
Requested(dto, c) ==
    SumSeq([i \in 1..Len(dto.tickets) |->
              IF dto.tickets[i].type = c THEN dto.tickets[i].quantity ELSE 0])

----------------------------------------------------------------------------
(* C1: in every reachable state, for every event and each ticket class,    *)
(* available + reserved + sold = capacity.                                 *)
C1_Conservation ==
    \A e \in EventIds : \A c \in TicketTypes :
        Available(e, c) + Reserved(e, c) + Sold(e, c) = Capacity(e, c)

(* C2: in every reachable state the available and the reserved counter of  *)
(* every event and class are >= 0, also after repeated settlement calls on *)
(* the same order.                                                         *)
C2_CountersNonNegative ==
    \A e \in EventIds : \A c \in TicketTypes :
        Available(e, c) >= 0 /\ Reserved(e, c) >= 0

(* C3: a second approve of an order already approved leaves the ledger as  *)
(* the first approve left it (sold and reserved unchanged).                *)
C3_ApproveTwiceOnce ==
    [][\A o \in OrderIds :
         (Exists(o) /\ orders[o].status = "COMPLETED" /\ approved(o))
            => events' = events]_vars

(* C4: approve, reject, cancel or expire of an order that is not PENDING   *)
(* leaves the order, its tickets and every ledger counter unchanged.       *)
C4_SettleOnlyPending ==
    [][\A o \in OrderIds :
         (/\ Exists(o) /\ orders[o].status # "PENDING"
          /\ (approved(o) \/ rejected(o) \/ cancelled(o) \/ expired(o)))
            => (orders' = orders /\ events' = events)]_vars

(* C5: once an order is COMPLETED, CANCELLED or EXPIRED, no later step     *)
(* changes its status.                                                     *)
C5_TerminalIsFinal ==
    [][\A o \in OrderIds :
         (Exists(o) /\ orders[o].status \in Terminal)
            => orders'[o].status = orders[o].status]_vars

(* C6: when the sweeper's expire and approve race on one order (the        *)
(* sweeper selected the order, approve committed, then the sweeper's       *)
(* expire runs), the loser is a no-op: it changes neither the order nor    *)
(* the ledger.                                                             *)
C6_RaceLoserNoOp ==
    [][\A o \in OrderIds : \A k \in Sweepers :
         (/\ Exists(o) /\ orders[o].status = "COMPLETED"
          /\ SweepExpireOrder(k, o))
            => (orders' = orders /\ events' = events)]_vars

(* C7: with concurrent create requests whose quantities fit one by one,    *)
(* available never goes negative under any interleaving.                   *)
C7_ConcurrentAvailableNonNegative ==
    \A e \in EventIds : \A c \in TicketTypes : Available(e, c) >= 0

(* C8: a create whose requested quantity for some class exceeds the        *)
(* available counter of that class fails with the not-enough-tickets       *)
(* error: no call passes the availability check, to go on to its writes,   *)
(* with a request that asks for more of a class than is available.         *)
C8_ExceedingRequestRejected ==
    [][\A s \in Sessions :
         Looks(s) =>
            \A c \in TicketTypes :
                Requested(sessions'[s].dto, c)
                  <= Available(sessions'[s].dto.eventId, c)]_vars

(* C9: a successful create of q[c] tickets per class appends one PENDING   *)
(* order with total = sum of q[c] * price[c], with exactly q[c] RESERVED   *)
(* tickets of class c, decrements available[c] by q[c] and increments      *)
(* reserved[c] by q[c].                                                    *)
C9_ReserveEffect ==
    [][\A s \in Sessions :
         CreateWrite(s) =>
            LET dto == sessions[s].dto
                e == dto.eventId
                order == orders'[Len(orders')]
            IN /\ Len(orders') = Len(orders) + 1
               /\ order.status = "PENDING"
               /\ order.total = Requested(dto, "VIP") * Price(e, "VIP")
                              + Requested(dto, "REGULAR") * Price(e, "REGULAR")
               /\ \A c \in TicketTypes :
                    /\ AvailableNext(e, c) = Available(e, c) - Requested(dto, c)
                    /\ ReservedNext(e, c) = Reserved(e, c) + Requested(dto, c)
                    /\ Cardinality(TicketsOf(order, c)) = Requested(dto, c)
               /\ \A k \in 1..Len(order.tickets) :
                    order.tickets[k].status = "RESERVED"]_vars

\* A two-class order was reserved: 1 VIP at 5 and 1 REGULAR at 2.
C9_Witness ==
    \E o \in 1..Len(orders) :
        /\ orders[o].status = "PENDING" /\ settled[o] = 0
        /\ orders[o].eventId = "e1" /\ orders[o].total = 7
        /\ Len(orders[o].tickets) = 2
        /\ Available("e1", "VIP") = 0 /\ Reserved("e1", "VIP") = 1
        /\ Available("e1", "REGULAR") = 1 /\ Reserved("e1", "REGULAR") = 1

(* C10: approve of a PENDING order moves exactly the order's own per-class *)
(* ticket counts from reserved to sold, sets the order COMPLETED and its   *)
(* tickets SOLD, and leaves every other order unchanged.                   *)
C10_ApproveFrame ==
    [][\A o \in OrderIds :
         (Exists(o) /\ orders[o].status = "PENDING" /\ approved(o)) =>
            LET e == orders[o].eventId IN
            /\ orders'[o].status = "COMPLETED"
            /\ Len(orders'[o].tickets) = Len(orders[o].tickets)
            /\ \A k \in 1..Len(orders[o].tickets) :
                 orders'[o].tickets[k] =
                    [orders[o].tickets[k] EXCEPT !.status = "SOLD"]
            /\ \A p \in 1..Len(orders) : p # o => orders'[p] = orders[p]
            /\ Len(orders') = Len(orders)
            /\ \A c \in TicketTypes :
                 LET n == Cardinality(TicketsOf(orders[o], c)) IN
                 /\ ReservedNext(e, c) = Reserved(e, c) - n
                 /\ SoldNext(e, c) = Sold(e, c) + n
                 /\ AvailableNext(e, c) = Available(e, c)
            /\ \A f \in EventIds : f # e => events'[f] = events[f]]_vars

\* One order of an event was approved while another order of the same
\* event stays pending.
C10_Witness ==
    /\ Len(orders) = 2
    /\ orders[1].eventId = orders[2].eventId
    /\ orders[1].status = "PENDING" /\ settled[1] = 0
    /\ orders[2].status = "COMPLETED" /\ settled[2] = 1
    /\ Sold(orders[2].eventId, "REGULAR") = 1
    /\ Reserved(orders[2].eventId, "REGULAR") = 1

(* C11: cancel and expire are ledger-equivalent: applied to the same        *)
(* PENDING order in the same state, both leave the same available,          *)
(* reserved and sold counters (reserved -= n, available += n per class)     *)
(* and the same released tickets; only the order status differs.            *)
C11_CancelExpireSameLedger ==
    \A o \in OrderIds :
        (Exists(o) /\ orders[o].status = "PENDING") =>
            /\ cancelledEvents(o) = expiredEvents(o)
            /\ \A c \in TicketTypes :
                 LET e == orders[o].eventId
                     n == Cardinality(TicketsOf(orders[o], c))
                     after == cancelledEvents(o)[e]
                 IN /\ (IF c = "VIP" THEN after.vipReserved
                                     ELSE after.regularReserved)
                         = Reserved(e, c) - n
                    /\ (IF c = "VIP" THEN after.vipAvailable
                                     ELSE after.regularAvailable)
                         = Available(e, c) + n
                    /\ (IF c = "VIP" THEN after.vipSold
                                     ELSE after.regularSold)
                         = Sold(e, c)
            /\ cancelledOrder(o).status = "CANCELLED"
            /\ expiredOrder(o).status = "EXPIRED"
            /\ [cancelledOrder(o) EXCEPT !.status = "EXPIRED"]
                 = expiredOrder(o)

\* Two orders for the same tickets of one event, one cancelled and one
\* expired, and the ledger is back where it started.
C11_Witness ==
    /\ Len(orders) = 2
    /\ orders[1].status = "CANCELLED" /\ orders[2].status = "EXPIRED"
    /\ settled[1] = 1 /\ settled[2] = 1
    /\ orders[1].eventId = "e1" /\ orders[2].eventId = "e1"
    /\ Len(orders[1].tickets) = 2
    /\ orders[1].tickets = orders[2].tickets
    /\ events = InitEvents

\* Ticket rows of the COMPLETED orders of user u for event e.
CompletedTickets(u, e) ==
    UNION {{<<o, k>> : k \in 1..Len(orders[o].tickets)} :
             o \in {x \in 1..Len(orders) :
                      /\ orders[x].userId = u
                      /\ orders[x].eventId = e
                      /\ orders[x].status = "COMPLETED"}}

(* C12: for an event with maxTicketsPerUser = N > 0 and a user holding k    *)
(* tickets in COMPLETED orders of the event, a request for r tickets with   *)
(* k + r <= N passes the limit check; with k + r > N a request that passed  *)
(* the availability check fails with LimitExceeded, and no call passes its *)
(* checks, to go on to its writes, with k + r > N.                          *)
C12_LimitCheck ==
    /\ [](\A dto \in DTOs :
            (dto.eventId \in EventIds
               /\ events[dto.eventId].maxTicketsPerUser > 0) =>
              LET N == events[dto.eventId].maxTicketsPerUser
                  k == Cardinality(CompletedTickets(dto.userId, dto.eventId))
                  r == Requested(dto, "VIP") + Requested(dto, "REGULAR")
              IN /\ (k + r <= N) =>
                        /\ ~LimitExceeded(events[dto.eventId], dto)
                        /\ createOutcome(dto) # "LimitExceeded"
                 /\ (k + r > N) =>
                        /\ createOutcome(dto) \in {"NotEnough", "LimitExceeded"}
                        /\ ~NotEnough(events[dto.eventId], dto.tickets)
                             => createOutcome(dto) = "LimitExceeded")
    /\ [][\A s \in Sessions :
            Passes(s) =>
              LET dto == sessions'[s].dto IN
              events[dto.eventId].maxTicketsPerUser > 0 =>
                Cardinality(CompletedTickets(dto.userId, dto.eventId))
                  + Requested(dto, "VIP") + Requested(dto, "REGULAR")
                <= events[dto.eventId].maxTicketsPerUser]_vars

\* u1 holds 2 COMPLETED tickets of e1 (N = 2) and asks for one REGULAR
\* ticket that is available: the request fails with LimitExceeded.
C12_Witness ==
    /\ events["e1"].maxTicketsPerUser = 2
    /\ Cardinality(CompletedTickets("u1", "e1")) = 2
    /\ events["e1"].regularAvailable >= 1
    /\ createOutcome([userId |-> "u1", eventId |-> "e1",
                      tickets |-> <<[type |-> "REGULAR", quantity |-> 1]>>])
         = "LimitExceeded"

(* C13: for every event with maxTicketsPerUser = N > 0, in every reachable  *)
(* state the number of tickets in any one user's COMPLETED orders of that   *)
(* event is at most N.                                                      *)
C13_CompletedWithinLimit ==
    \A u \in Users : \A e \in EventIds :
        events[e].maxTicketsPerUser > 0 =>
            Cardinality(CompletedTickets(u, e)) <= events[e].maxTicketsPerUser

\* Tickets of class c of event e held by orders that are still RESERVED.
HeldTickets(e, c) ==
    UNION {{<<o, k>> : k \in {i \in TicketsOf(orders[o], c) :
                                 orders[o].tickets[i].status = "RESERVED"}} :
             o \in {x \in 1..Len(orders) : orders[x].eventId = e}}

(* C14: when the cron job keeps running, every order that is PENDING with  *)
(* expiresAt <= now and is settled by no caller is eventually EXPIRED with *)
(* all its tickets released, expired exactly once, and its quantity is no  *)
(* longer in reserved: reserved counts the tickets still held and the rest *)
(* of what the event offered is available again.  When every order of the *)
(* table is due, the ledger eventually returns to the available count the  *)
(* event was created with, reserved = 0.  Two runs of the job that overlap *)
(* both expire an order they both selected, and the ledger never comes     *)
(* back to these counts.                                                   *)
C14_DueOrderEventuallyExpired ==
    /\ \A o \in OrderIds :
         (Exists(o) /\ orders[o].status = "PENDING"
            /\ orders[o].expiresAt <= now)
         ~> (/\ Exists(o)
             /\ orders[o].status = "EXPIRED"
             /\ \A k \in 1..Len(orders[o].tickets) :
                  orders[o].tickets[k].status = "AVAILABLE"
             /\ settled[o] = 1
             /\ \A c \in TicketTypes :
                  LET e == orders[o].eventId IN
                  /\ Reserved(e, c) = Cardinality(HeldTickets(e, c))
                  /\ Available(e, c) = Offered(e, c) - Reserved(e, c))
    /\ (Len(orders) = Cardinality(OrderIds)
          /\ \A o \in OrderIds : orders[o].expiresAt <= now)
       ~> (\A e \in EventIds : \A c \in TicketTypes :
             Available(e, c) = Offered(e, c) /\ Reserved(e, c) = 0)

(* C15: rejected on a PENDING order writes the row it found: the order      *)
(* stays PENDING, its tickets RESERVED, expiresAt and total are unchanged,  *)
(* so it is due for the sweeper exactly when it was before; and no          *)
(* rejected call changes an event counter or an expiresAt.                  *)
C15_RejectKeepsHold ==
    /\ [](\A o \in OrderIds :
            (Exists(o) /\ orders[o].status = "PENDING") =>
                /\ rejectedOrder(o) = orders[o]
                /\ rejectedOrder(o).status = "PENDING"
                /\ \A k \in 1..Len(orders[o].tickets) :
                     rejectedOrder(o).tickets[k].status = "RESERVED"
                /\ rejectedOrder(o).expiresAt = orders[o].expiresAt
                /\ (rejectedOrder(o).expiresAt <= now)
                     <=> (o \in getExpiredOrders))
    /\ [][\A o \in OrderIds :
            (Exists(o) /\ rejected(o)) =>
                /\ events' = events
                /\ orders'[o].expiresAt = orders[o].expiresAt
                /\ orders[o].status = "PENDING" => orders' = orders]_vars

\* A PENDING order whose expiry time has come, tickets RESERVED and counted
\* in reserved: rejected writes back the same row and the sweeper's query
\* selects the order.
C15_Witness ==
    /\ Exists(1) /\ orders[1].status = "PENDING"
    /\ orders[1].expiresAt <= now
    /\ rejectedOrder(1) = orders[1]
    /\ 1 \in getExpiredOrders
    /\ Reserved(orders[1].eventId, "REGULAR") = 2
    /\ Cardinality(TicketsOf(orders[1], "REGULAR")) = 2

(* C16: create is all-or-nothing.  Every step of a create transaction       *)
(* either changes no event and no order, or it is the commit of one         *)
(* request, which at once moves the requested counts from available to      *)
(* reserved, appends the order with one ticket per unit and ends the call;  *)
(* a transaction that fails after its checks, also after its counter        *)
(* update, leaves events and orders as they were.                           *)
C16_ReserveAllOrNothing ==
    [][/\ \/ events' = events /\ orders' = orders
          \/ \E s \in Sessions :
               /\ sessions[s].pc = "updated" /\ sessions'[s] = Idle
               /\ LET dto == sessions[s].dto
                      e == dto.eventId
                  IN /\ orders' = Append(orders,
                                         NewOrder(sessions[s].event, dto))
                     /\ Len(orders'[Len(orders')].tickets)
                          = Requested(dto, "VIP") + Requested(dto, "REGULAR")
                     /\ \A c \in TicketTypes :
                          /\ AvailableNext(e, c)
                               = Available(e, c) - Requested(dto, c)
                          /\ ReservedNext(e, c)
                               = Reserved(e, c) + Requested(dto, c)
                          /\ SoldNext(e, c) = Sold(e, c)
                     /\ \A f \in EventIds \ {e} : events'[f] = events[f]
       /\ \A s \in Sessions :
            (sessions'[s].pc = "failed" /\ sessions[s].pc # "failed")
                => events' = events /\ orders' = orders]_vars

\* A create transaction failed after its counter update while another
\* request committed: the store holds exactly the committed order and its
\* counts, nothing of the failed one.
C16_Witness ==
    /\ sessions[1] = [pc |-> "failed", at |-> "updated"]
    /\ Len(orders) = 1 /\ orders[1].eventId = "e1"
    /\ Len(orders[1].tickets) = 2
    /\ \A c \in TicketTypes :
         /\ Reserved("e1", c) = Cardinality(TicketsOf(orders[1], c))
         /\ Available("e1", c) = Capacity("e1", c) - Reserved("e1", c)
    /\ events["e2"] = InitEvents["e2"]

\* The status of every ticket of order o in the next state is st.
TicketsNext(o, st) ==
    \A k \in 1..Len(orders'[o].tickets) : orders'[o].tickets[k].status = st

(* C17: approve, cancel and expire are atomic across order, tickets and     *)
(* ledger.  Every step that changes an order row or an event row is either *)
(* the creation of an order or the commit of one settlement, which at once  *)
(* sets that order's status, sets all its tickets to the matching status    *)
(* and moves its per-class counts between the matching counters; and a      *)
(* settlement that fails after its status write leaves orders and events    *)
(* as they were.                                                            *)
C17_SettlementAtomic ==
    [][/\ \/ events' = events /\ orders' = orders
          \/ Len(orders') = Len(orders) + 1
          \/ \E o \in OrderIds :
               /\ Exists(o) /\ Len(orders') = Len(orders)
               /\ \A p \in 1..Len(orders) : p # o => orders'[p] = orders[p]
               /\ \A f \in EventIds \ {orders[o].eventId} :
                    events'[f] = events[f]
               /\ LET e == orders[o].eventId IN
                  \/ /\ orders'[o].status = "COMPLETED"
                     /\ TicketsNext(o, "SOLD")
                     /\ \A c \in TicketTypes :
                          LET n == Cardinality(TicketsOf(orders[o], c)) IN
                          /\ ReservedNext(e, c) = Reserved(e, c) - n
                          /\ SoldNext(e, c) = Sold(e, c) + n
                          /\ AvailableNext(e, c) = Available(e, c)
                  \/ /\ orders'[o].status \in {"CANCELLED", "EXPIRED"}
                     /\ TicketsNext(o, "AVAILABLE")
                     /\ \A c \in TicketTypes :
                          LET n == Cardinality(TicketsOf(orders[o], c)) IN
                          /\ ReservedNext(e, c) = Reserved(e, c) - n
                          /\ AvailableNext(e, c) = Available(e, c) + n
                          /\ SoldNext(e, c) = Sold(e, c)
       /\ \A s \in Sessions :
            (sessions'[s].pc = "failed" /\ sessions[s].pc # "failed")
                => events' = events /\ orders' = orders]_vars

\* approved(1) failed after its status write while cancelled(2) committed:
\* order 1 is still PENDING with its tickets RESERVED and counted in
\* reserved, nothing is sold, order 2 is CANCELLED and released.
C17_Witness ==
    /\ sessions[1] = [pc |-> "failed", op |-> "approved", orderId |-> 1]
    /\ Len(orders) = 2
    /\ orders[1].status = "PENDING" /\ orders[1].eventId = "e1"
    /\ \A k \in 1..Len(orders[1].tickets) :
         orders[1].tickets[k].status = "RESERVED"
    /\ orders[2].status = "CANCELLED" /\ orders[2].eventId = "e1"
    /\ settled = <<0, 1>>
    /\ \A c \in TicketTypes :
         /\ Reserved("e1", c) = Cardinality(TicketsOf(orders[1], c))
         /\ Sold("e1", c) = 0

(* C18, as the claim states it: in one run of the sweeper a failing expire *)
(* of one selected order does not stop the loop.  Every step that takes    *)
(* orders out of a run's selection takes out exactly one, either expired   *)
(* by that step or, when its expire failed, left PENDING with orders and   *)
(* events unchanged and selected again by the query; every selected order  *)
(* is reached by the loop, and an order whose expire failed is selected    *)
(* again by a later run.                                                   *)
C18_SweepFailureIsolated ==
    /\ [][\A k \in Sweepers :
            (sweep[k] # {} /\ sweep'[k] # sweep[k]) =>
              \E o \in sweep[k] :
                /\ sweep'[k] = sweep[k] \ {o}
                /\ \/ /\ orders'[o].status = "EXPIRED"
                      /\ settled'[o] = settled[o] + 1
                   \/ /\ orders' = orders /\ events' = events
                      /\ orders'[o].status = "PENDING"
                      /\ o \in getExpiredOrders']_vars
    /\ \A k \in Sweepers : \A o \in OrderIds :
         /\ (o \in sweep[k]) ~> (o \notin sweep[k])
         /\ (Exists(o) /\ orders[o].status = "PENDING"
               /\ orders[o].expiresAt <= now /\ o \notin sweep[k])
            ~> (o \in sweep[k])

(* C18, for the orders that are still PENDING when their expire fails: in  *)
(* one run of the sweeper a failing expire of one selected order does not  *)
(* stop the loop.  Every step that takes orders out of a run's selection   *)
(* takes out exactly one, either expired by that step or, when its expire  *)
(* failed, with orders and events unchanged; such an order, if it is still *)
(* PENDING (no other run and no caller settled it after the query), is     *)
(* selected again by the query.  Every run comes to the end of its         *)
(* selection, and a PENDING order that is due is selected by a later run   *)
(* unless it is settled before.                                            *)
C18_SweepFailureLeavesOrder ==
    /\ [][\A k \in Sweepers :
            (sweep[k] # {} /\ sweep'[k] # sweep[k]) =>
              \E o \in sweep[k] :
                /\ sweep'[k] = sweep[k] \ {o}
                /\ \/ /\ orders'[o].status = "EXPIRED"
                      /\ settled'[o] = settled[o] + 1
                   \/ /\ orders' = orders /\ events' = events
                      /\ orders[o].status = "PENDING"
                           => o \in getExpiredOrders']_vars
    /\ \A k \in Sweepers : []<>(sweep[k] = {})
    /\ \A k \in Sweepers : \A o \in OrderIds :
         (Exists(o) /\ orders[o].status = "PENDING"
            /\ orders[o].expiresAt <= now /\ o \notin sweep[k])
         ~> (o \in sweep[k]
               \/ ~(Exists(o) /\ orders[o].status = "PENDING"))

\* Both orders were due and selected by one run; the expire of order 1
\* failed, order 1 is PENDING with its tickets still reserved, and order 2
\* is still in the run's selection.
C18_Witness ==
    /\ Len(orders) = 2
    /\ orders[1].status = "PENDING" /\ orders[1].expiresAt <= now
    /\ orders[2].status = "PENDING" /\ orders[2].expiresAt <= now
    /\ sweep[1] = {2}
    /\ 1 \in getExpiredOrders
    /\ settled = <<0, 0>>
    /\ Reserved(orders[1].eventId, "REGULAR")
         >= Cardinality(TicketsOf(orders[1], "REGULAR"))
    /\ Cardinality(TicketsOf(orders[1], "REGULAR")) >= 1

\* The ticket status that goes with an order status.
ImpliedTicketStatus(st) ==
    CASE st = "PENDING"   -> "RESERVED"
      [] st = "COMPLETED" -> "SOLD"
      [] st = "CANCELLED" -> "AVAILABLE"
      [] st = "EXPIRED"   -> "AVAILABLE"

TicketTypesOf(order) == [k \in 1..Len(order.tickets) |-> order.tickets[k].type]

(* C20: an order is created with one ticket row per requested unit: per    *)
(* class as many tickets as the request's line items of that class sum to, *)
(* and as many tickets in all as the request asks for; and no step          *)
(* (approve, reject, cancel, expire, sweeper, another create) removes an    *)
(* order or changes the number or the classes of an existing order's        *)
(* tickets.                                                                 *)
C20_TicketCountFixed ==
    [][/\ Len(orders') >= Len(orders)
       /\ \A o \in 1..Len(orders) :
            TicketTypesOf(orders'[o]) = TicketTypesOf(orders[o])
       /\ Len(orders') = Len(orders) + 1 =>
            \A s \in Sessions :
              CreateWrite(s) =>
                LET order == orders'[Len(orders')]
                    dto == sessions[s].dto IN
                /\ \A c \in TicketTypes :
                     Cardinality(TicketsOf(order, c)) = Requested(dto, c)
                /\ Len(order.tickets)
                     = Requested(dto, "VIP") + Requested(dto, "REGULAR")]_vars

\* An order of one VIP and one REGULAR ticket that was settled, then
\* rejected, still has its two tickets; a second order of two REGULAR
\* tickets was expired and still has both.
C20_Witness ==
    /\ Len(orders) = 2
    /\ TicketTypesOf(orders[1]) = <<"VIP", "REGULAR">>
    /\ orders[1].status = "PENDING" /\ settled[1] = 1
    /\ TicketTypesOf(orders[2]) = <<"REGULAR", "REGULAR">>
    /\ orders[2].status = "EXPIRED" /\ settled[2] = 1

(* C21: a request for an event id that has no event row fails with the      *)
(* NotFound of the event lookup: no call passes its checks with such a      *)
(* request, and no commit of a create is for such a request.                *)
C21_MissingEventNoMutation ==
    /\ [](\A dto \in DTOs :
            dto.eventId \notin DOMAIN events
                => createOutcome(dto) = "EventNotFound")
    /\ [][\A s \in Sessions :
            /\ Looks(s) => sessions'[s].dto.eventId \in DOMAIN events
            /\ CreateWrite(s) => sessions[s].dto.eventId \in DOMAIN events
         ]_vars

\* One order is held and the table has room for another: a request for the
\* missing event fails with EventNotFound.
C21_Witness ==
    /\ Len(orders) = 1 /\ orders[1].status = "PENDING"
    /\ Reserved("e2", "VIP") = 1
    /\ createOutcome([userId |-> "u2", eventId |-> NoEvent,
                      tickets |-> <<[type |-> "VIP", quantity |-> 1]>>])
         = "EventNotFound"

(* C22: the sweeper expires only holds that are due.  A run's selection is  *)
(* exactly the orders that are PENDING with expiresAt <= now at the query;  *)
(* a step of the sweeper that expires an order expires one of its           *)
(* selection, so never a PENDING order whose expiresAt is still ahead; no   *)
(* step changes an expiresAt; and the expiresAt of a new order is the       *)
(* instant of its creation plus 10 minutes.                                 *)
C22_SweeperExpiresOnlyDue ==
    /\ [](\A k \in Sweepers : \A o \in sweep[k] :
            Exists(o) /\ orders[o].expiresAt <= now)
    /\ [][/\ \A k \in Sweepers :
              /\ ~(sweep'[k] \subseteq sweep[k]) =>
                    sweep'[k] = {o \in 1..Len(orders) :
                                   /\ orders[o].status = "PENDING"
                                   /\ orders[o].expiresAt <= now}
              /\ sweep'[k] # sweep[k] =>
                    \A o \in 1..Len(orders) :
                        (orders'[o].status = "EXPIRED" /\ orders'[o] # orders[o])
                            => /\ o \in sweep[k]
                               /\ orders[o].expiresAt <= now
           /\ \A o \in 1..Len(orders) :
                /\ o \in 1..Len(orders')
                /\ orders'[o].expiresAt = orders[o].expiresAt
           /\ Len(orders') > Len(orders) =>
                /\ orders'[Len(orders')].expiresAt = now + 10
                /\ orders'[Len(orders')].status = "PENDING"
           /\ now' >= now]_vars

(* C23: for an event with maxTicketsPerUser = 0 the limit check rejects     *)
(* nothing: no request fails with LimitExceeded, whatever the user holds    *)
(* in COMPLETED orders of the event.                                        *)
C23_ZeroMeansUnlimited ==
    \A dto \in DTOs :
        (dto.eventId \in EventIds /\ events[dto.eventId].maxTicketsPerUser = 0)
            => /\ ~LimitExceeded(events[dto.eventId], dto)
               /\ createOutcome(dto) # "LimitExceeded"

\* u1 holds a COMPLETED ticket of e2 (maxTicketsPerUser = 0) and the limit
\* check lets a request of u1 for two more pass.
C23_Witness ==
    /\ events["e2"].maxTicketsPerUser = 0
    /\ Cardinality(CompletedTickets("u1", "e2")) = 1
    /\ ~LimitExceeded(events["e2"],
                      [userId |-> "u1", eventId |-> "e2",
                       tickets |-> <<[type |-> "VIP", quantity |-> 2]>>])

\* Ticket rows of the PENDING orders of user u for event e.
PendingTickets(u, e) ==
    UNION {{<<o, k>> : k \in 1..Len(orders[o].tickets)} :
             o \in {x \in 1..Len(orders) :
                      /\ orders[x].userId = u
                      /\ orders[x].eventId = e
                      /\ orders[x].status = "PENDING"}}

(* C24: the limit check counts only the tickets of the user's COMPLETED    *)
(* orders of the event.  With maxTicketsPerUser = N > 0, k tickets in      *)
(* COMPLETED orders and any number p in PENDING, CANCELLED or EXPIRED       *)
(* orders, a request for r tickets passes the check exactly when           *)
(* k + r <= N.                                                              *)
C24_OnlyCompletedCounted ==
    \A dto \in DTOs :
        (dto.eventId \in EventIds
           /\ events[dto.eventId].maxTicketsPerUser > 0) =>
          LET N == events[dto.eventId].maxTicketsPerUser
              k == Cardinality(CompletedTickets(dto.userId, dto.eventId))
              r == Requested(dto, "VIP") + Requested(dto, "REGULAR")
          IN /\ UserTotalTickets(dto.userId, dto.eventId) = k
             /\ ~LimitExceeded(events[dto.eventId], dto) <=> (k + r <= N)

\* u1 holds 2 PENDING tickets of e1 (N = 2) and none COMPLETED: a request
\* for one more REGULAR ticket is accepted although p + r = 3.
C24_Witness ==
    /\ events["e1"].maxTicketsPerUser = 2
    /\ Cardinality(PendingTickets("u1", "e1")) = 2
    /\ Cardinality(CompletedTickets("u1", "e1")) = 0
    /\ createOutcome([userId |-> "u1", eventId |-> "e1",
                      tickets |-> <<[type |-> "REGULAR", quantity |-> 1]>>])
         = "ok"

(* C25: the notification hook is a step of its own after the settlement    *)
(* has committed.  The step that makes the hook due is the commit of the    *)
(* approve or reject it follows; the hook's step, whether the mail is sent  *)
(* or the hook throws, changes no order, ticket or counter; so when it has  *)
(* failed the settlement is still committed.                                *)
C25_HookNeverMutates ==
    [][\A s \in Sessions :
        /\ (sessions[s].pc = "notify" /\ sessions'[s].pc # "notify")
              => /\ sessions'[s].pc \in {"sent", "failed"}
                 /\ orders' = orders /\ events' = events
                 /\ settled' = settled
        /\ (sessions[s].pc # "notify" /\ sessions'[s].pc = "notify")
              => LET o == sessions'[s].orderId IN
                 /\ Exists(o)
                 /\ sessions'[s].op = "approved" =>
                      /\ orders'[o].status = "COMPLETED"
                      /\ TicketsNext(o, "SOLD")
                      /\ settled'[o] = settled[o] + 1
                 /\ sessions'[s].op = "rejected" =>
                      /\ orders'[o].status = "PENDING"
                      /\ TicketsNext(o, "RESERVED")
                      /\ events' = events]_vars

\* The mail after approved(1) failed: order 1 is COMPLETED, its two tickets
\* are SOLD and counted in sold.
C25_Witness ==
    /\ sessions[1] = [pc |-> "failed", op |-> "approved", orderId |-> 1]
    /\ Exists(1) /\ orders[1].status = "COMPLETED" /\ settled[1] = 1
    /\ Len(orders[1].tickets) = 2
    /\ \A k \in 1..2 : orders[1].tickets[k].status = "SOLD"
    /\ \A c \in TicketTypes :
         /\ Sold(orders[1].eventId, c) = Cardinality(TicketsOf(orders[1], c))
         /\ Reserved(orders[1].eventId, c) = 0

(* C26: the list upcoming returns has at most 4 events, each with date >=   *)
(* the current time, no event twice, in ascending order of date; every      *)
(* upcoming event left out is no earlier than the last one returned and is  *)
(* left out only because the list is full; the list is empty when no event  *)
(* is upcoming.                                                             *)
C26_UpcomingFourEarliest ==
    [][\A s \in Sessions :
        (sessions'[s].pc = "listed" /\ sessions[s].pc # "listed") =>
          LET r == sessions'[s].result
              future == {e \in 1..Len(events) : events[e].date >= now}
              listed == {r[i] : i \in 1..Len(r)}
          IN /\ Len(r) <= 4
             /\ listed \subseteq future
             /\ Cardinality(listed) = Len(r)
             /\ \A i, j \in 1..Len(r) :
                  i < j => events[r[i]].date <= events[r[j]].date
             /\ \A e \in future \ listed :
                  /\ Len(r) = 4
                  /\ events[e].date >= events[r[4]].date
             /\ future = {} => r = << >>]_vars

\* Five events at minute 10, one of them past: the caller got the four
\* others, the earliest (date 10) first.
C26_Witness ==
    /\ Len(events) = 5 /\ now = 10
    /\ events[1].date = 5
    /\ \A e \in 2..5 : events[e].date >= 10
    /\ sessions[1].pc = "listed"
    /\ Len(sessions[1].result) = 4
    /\ events[sessions[1].result[1]].date = 10
    /\ events[sessions[1].result[4]].date = 15

(* C27: a request that lists a class in more than one line item passes the *)
(* checks only if, for every class, the quantities of all its line items   *)
(* of that class together are at most the available counter, and after     *)
(* the commit of an accepted request available is still >= 0.              *)
C27_SummedQuantityChecked ==
    [][\A s \in Sessions :
         /\ (Looks(s) /\ sessions'[s].dto \notin PlainDTOs) =>
               \A c \in TicketTypes :
                   Requested(sessions'[s].dto, c)
                     <= Available(sessions'[s].dto.eventId, c)
         /\ CreateWrite(s) =>
               \A c \in TicketTypes :
                   AvailableNext(sessions[s].dto.eventId, c) >= 0]_vars

\* Tickets of class c of event e, over all orders, that have status st.
TicketsInStatus(e, c, st) ==
    UNION {{<<o, k>> : k \in {i \in TicketsOf(orders[o], c) :
                                 orders[o].tickets[i].status = st}} :
             o \in {x \in 1..Len(orders) : orders[x].eventId = e}}

(* C28: no ledger drift: in every reachable state, for every event and     *)
(* class, reserved equals the number of the event's tickets of that class  *)
(* with status RESERVED and sold equals the number with status SOLD.       *)
C28_NoLedgerDrift ==
    \A e \in EventIds : \A c \in TicketTypes :
        /\ Reserved(e, c) = Cardinality(TicketsInStatus(e, c, "RESERVED"))
        /\ Sold(e, c) = Cardinality(TicketsInStatus(e, c, "SOLD"))

(* C29: no overselling: in every reachable state, for every event and      *)
(* class, sold <= capacity, and the tickets of that class with status SOLD *)
(* or RESERVED number at most the capacity.                                *)
C29_NoOverselling ==
    \A e \in EventIds : \A c \in TicketTypes :
        /\ Sold(e, c) <= Capacity(e, c)
        /\ Cardinality(TicketsInStatus(e, c, "SOLD")
                         \cup TicketsInStatus(e, c, "RESERVED"))
             <= Capacity(e, c)

(* C30: an order's reserved inventory is released to available at most     *)
(* once when a release races with the sweeper: a step of the sweeper that  *)
(* expires a selected order does not move that order's counts from         *)
(* reserved to available when the order was already CANCELLED or EXPIRED   *)
(* (by a buyer's cancel or by another expire that committed after the       *)
(* selection).                                                              *)
C30_ReleasedOnceUnderRace ==
    [][\A k \in Sweepers : \A o \in sweep[k] :
        (/\ sweep'[k] = sweep[k] \ {o}
         /\ orders[o].status \in {"CANCELLED", "EXPIRED"})
        => \A c \in TicketTypes :
             /\ AvailableNext(orders[o].eventId, c)
                  = Available(orders[o].eventId, c)
             /\ ReservedNext(orders[o].eventId, c)
                  = Reserved(orders[o].eventId, c)]_vars

(* C31: create validates in the order event-exists, inventory, purchase    *)
(* limit.  A request for a missing event fails with the not-found error; a *)
(* request for an existing event whose quantity for some class exceeds the *)
(* available counter and whose total over both classes would exceed the    *)
(* user's limit fails with the not-enough-tickets error, not with          *)
(* LimitExceeded.                                                          *)
C31_InventoryBeforeLimit ==
    \A dto \in DTOs :
        /\ dto.eventId \notin EventIds
              => createOutcome(dto) = "EventNotFound"
        /\ (/\ dto.eventId \in EventIds
            /\ \E c \in TicketTypes :
                  Requested(dto, c) > Available(dto.eventId, c)
            /\ events[dto.eventId].maxTicketsPerUser > 0
            /\ Cardinality(CompletedTickets(dto.userId, dto.eventId))
                 + Requested(dto, "VIP") + Requested(dto, "REGULAR")
               > events[dto.eventId].maxTicketsPerUser)
              => createOutcome(dto) = "NotEnough"

(* C32: ticket prices are locked in at reservation.  The order's total is  *)
(* the sum of its tickets' prices; the prices a create call holds after    *)
(* its lookup are the event's class prices of that moment, and every       *)
(* ticket of the order it inserts carries the price of its class that the  *)
(* call holds; and no step - a price change by EventsService.update, a     *)
(* settlement, a later create - changes the price of an existing ticket or *)
(* the total of an existing order.                                         *)
C32_PriceLockedAtReserve ==
    /\ [](\A o \in 1..Len(orders) :
            orders[o].total
              = SumSeq([k \in 1..Len(orders[o].tickets) |->
                          orders[o].tickets[k].price]))
    /\ [][/\ \A s \in Sessions :
               /\ Looks(s) =>
                    /\ sessions'[s].event.vipPrice
                         = Price(sessions'[s].dto.eventId, "VIP")
                    /\ sessions'[s].event.regularPrice
                         = Price(sessions'[s].dto.eventId, "REGULAR")
               /\ (CreateWrite(s) /\ Len(orders') = Len(orders) + 1) =>
                    LET new == orders'[Len(orders')] IN
                    \A k \in 1..Len(new.tickets) :
                        new.tickets[k].price
                          = IF new.tickets[k].type = "VIP"
                              THEN sessions[s].event.vipPrice
                              ELSE sessions[s].event.regularPrice
          /\ \A o \in 1..Len(orders) :
               /\ o \in 1..Len(orders')
               /\ orders'[o].total = orders[o].total
               /\ Len(orders'[o].tickets) = Len(orders[o].tickets)
               /\ \A k \in 1..Len(orders[o].tickets) :
                    orders'[o].tickets[k].price = orders[o].tickets[k].price
         ]_vars

\* Order 1 was reserved at the VIP price 5 and approved after the event's
\* VIP price became 4; order 2 was reserved at the new price.
C32_Witness ==
    /\ Len(orders) = 2
    /\ orders[1].eventId = "e1" /\ orders[1].status = "COMPLETED"
    /\ orders[1].tickets[1].type = "VIP" /\ orders[1].tickets[1].price = 5
    /\ orders[1].total = 5
    /\ events["e1"].vipPrice = 4 /\ events["e1"].regularPrice = 4
    /\ orders[2].eventId = "e1"
    /\ orders[2].tickets[1].type = "REGULAR"
    /\ orders[2].tickets[1].price = 4

(* C33: per-transition frame.  approve leaves available unchanged for      *)
(* every event and class; cancel and expire (called directly or by the     *)
(* sweeper) leave sold unchanged; a create that reserves leaves sold       *)
(* unchanged; and no step changes a capacity.                              *)
C33_TransitionFrame ==
    [][/\ (\A e \in EventIds : \A c \in TicketTypes :
              AvailableNext(e, c) = Available(e, c))
           \/ ~(\E o \in OrderIds : approved(o))
       /\ (\A e \in EventIds : \A c \in TicketTypes :
              SoldNext(e, c) = Sold(e, c))
           \/ ~(\/ \E o \in OrderIds : cancelled(o) \/ expired(o)
                \/ \E k \in Sweepers : SweepExpire(k)
                \/ Len(orders') = Len(orders) + 1)
       /\ \A e \in EventIds : \A c \in TicketTypes :
              (IF c = "VIP" THEN events'[e].vipCapacity
                            ELSE events'[e].regularCapacity) = Capacity(e, c)
      ]_vars

\* Of two reservations on e1 one was approved and one cancelled.
C33_Witness ==
    /\ Len(orders) = 2
    /\ orders[1].eventId = "e1" /\ orders[2].eventId = "e1"
    /\ orders[1].status = "CANCELLED" /\ orders[2].status = "COMPLETED"
    /\ settled[1] = 1 /\ settled[2] = 1
    /\ Sold("e1", "VIP") = 1 /\ Available("e1", "REGULAR") = 2

\* The step leaves alone every counter that is not of the order's event
\* and of a class the order has a ticket of.
OnlyCountersOf(order) ==
    \A e \in EventIds : \A c \in TicketTypes :
        (e # order.eventId \/ TicketsOf(order, c) = {})
          => /\ AvailableNext(e, c) = Available(e, c)
             /\ ReservedNext(e, c) = Reserved(e, c)
             /\ SoldNext(e, c) = Sold(e, c)

(* C34: isolation across events and classes.  A create that reserves, and  *)
(* approve, reject, cancel and expire (also by the sweeper) of an order of *)
(* event E, change no counter of another event and no counter of a class   *)
(* the order has no ticket of.                                             *)
C34_IsolationAcrossEventsAndClasses ==
    [][/\ Len(orders') = Len(orders) + 1
            => OnlyCountersOf(orders'[Len(orders')])
       /\ \A o \in 1..Len(orders) :
            (\/ approved(o) \/ rejected(o) \/ cancelled(o) \/ expired(o)
             \/ \E k \in Sweepers : SweepExpireOrder(k, o))
              => OnlyCountersOf(orders[o])
      ]_vars

\* A VIP-only order of e1 was approved while an order of e2 is held: the
\* REGULAR counters of e1 and the counters of e2 are as the creates left
\* them.
C34_Witness ==
    /\ Len(orders) = 2
    /\ orders[1].eventId = "e1" /\ orders[1].status = "COMPLETED"
    /\ TicketsOf(orders[1], "REGULAR") = {}
    /\ orders[2].eventId = "e2" /\ orders[2].status = "PENDING"
    /\ Sold("e1", "VIP") = 1 /\ Reserved("e2", "VIP") = 1
    /\ Available("e1", "REGULAR") = 2 /\ Sold("e2", "VIP") = 0

\* In every event row, reserved equals the number of RESERVED tickets of the
\* event's PENDING orders.
ReservedIsHeld ==
    \A e \in DOMAIN events : \A c \in TicketTypes :
        Reserved(e, c)
          = SumSeq([o \in 1..Len(orders) |->
               IF orders[o].eventId = e /\ orders[o].status = "PENDING"
                 THEN Cardinality({k \in TicketsOf(orders[o], c) :
                         orders[o].tickets[k].status = "RESERVED"})
                 ELSE 0])

(* C35: every unit counted in reserved is backed by a live hold also when  *)
(* the generic order operations are used: a step of update or remove on a  *)
(* PENDING order, taken in a state where reserved equals the number of     *)
(* RESERVED tickets of the PENDING orders of every event, leads to a state *)
(* where it still does; and such a step changes the sum available +        *)
(* reserved + sold of no event and class, so a row whose sum is its        *)
(* capacity keeps it.                                                      *)
C35_ReservedBackedByHold ==
    [][\A id \in OrderIds :
         (/\ HasRow(id) /\ orders[id].status = "PENDING"
          /\ orders' # orders
          /\ \/ remove(id)
             \/ \E updateOrderDto \in UpdateOrderDtos :
                  update(id, updateOrderDto))
           => /\ ReservedIsHeld => ReservedIsHeld'
              /\ \A e \in DOMAIN events : \A c \in TicketTypes :
                   Available(e, c) + Reserved(e, c) + Sold(e, c)
                     = AvailableNext(e, c) + ReservedNext(e, c)
                         + SoldNext(e, c)]_vars

(* C36: a settlement call (approve, reject, cancel, expire) with an order  *)
(* id that has no order - an id never given out, or the id of an order     *)
(* that remove deleted - fails with an error, and no step that changes an  *)
(* order, a ticket or a counter of an event is a settlement of such an id, *)
(* by a caller or by the sweeper for an order deleted after its query.     *)
C36_MissingOrderNoMutation ==
    /\ [](\A o \in OrderIds :
            ~HasRow(o) => settleOutcome(o) = "RecordNotFound")
    /\ [][(events' # events \/ orders' # orders) =>
            \A o \in OrderIds :
                ~HasRow(o) =>
                    /\ ~(approved(o) \/ rejected(o) \/ cancelled(o)
                           \/ expired(o))
                    /\ \A k \in Sweepers : ~SweepExpireOrder(k, o)
                    /\ ~Exists(o) \/ orders'[o] = orders[o]
         ]_vars

\* Order 1 held two REGULAR tickets of e1, was selected by the query of
\* the sweeper when it was due and then deleted by remove, before the loop
\* reached it; no order has the id 2; a settlement of either id fails.
C36_Witness ==
    /\ Len(orders) = 1 /\ orders[1].status = "DELETED"
    /\ 1 \in sweep[1]
    /\ "e1" \in DOMAIN events /\ Reserved("e1", "REGULAR") = 2
    /\ ~HasRow(1) /\ settleOutcome(1) = "RecordNotFound"
    /\ ~Exists(2) /\ settleOutcome(2) = "RecordNotFound"

====
